---- MODULE Spec2Model ----
(***************************************************************************)
(* A model of the TMF8805 time-of-flight sensor driver                     *)
(* (src/tmf8805/tmf8805.py).  The driver is one sequential program; pc is  *)
(* its position.  Every bus transaction, watchdog feed, sleep and clock    *)
(* read is one step.  The sensor, the bus scan and the clock are the       *)
(* environment: each read draws its answer from a set of sample values.    *)
(*                                                                         *)
(* Python strings are sequences of one-character strings, bytes objects    *)
(* are sequences of numbers 0..255.                                        *)
(***************************************************************************)
EXTENDS Integers, Sequences, FiniteSets, TLC

VARIABLES
    pc,                   \* position of the driver ("idle": between calls)
    op,                   \* the facade operation in progress, or the last one
    address,              \* self.address, a string
    pin,                  \* level of the enable pin ("unset": not driven yet)
    i2c,                  \* self.i2c: "none" until the constructor opens the bus
    trace,                \* bus transactions of the current (or last) call
    devices,              \* local of is_connected: the scan result
    rx,                   \* what read_single_byte has just returned
    counter,              \* local counter of the polling loop in progress
    ready,                \* local ready / data_available of that loop
    value,                \* local value of enable_interrupt and perform_calibration
    reliabilty,           \* local of get_measurement (spelling of the source)
    status,               \* local of get_status and of get_measurement
    peak_1,               \* local of get_measurement
    peak_0,               \* local of get_measurement
    distance,             \* local of get_measurement
    now,                  \* the clock, in ms
    start_of_calibration, \* local of perform_calibration, in s
    calibration_data,     \* local of perform_calibration, argument of set_calibration
    outcome,              \* how the last call ended: "none", "return", "raise"
    events,               \* history: the last three events of the current call
    unfed,                \* history: "start" or "sleep" while no feed has followed it, else "none"
    polls,                \* history: reads of the polling loop in progress
    sleeps,               \* history: sleeps of the polling loop in progress
    sensor,               \* environment: the answers of a sensor that does not change
    first,                \* history: how the caller's first initialize() ended
    initialized,          \* history: "never", or how the latest initialize() ended
    ret                   \* what the last call returned

vars ==
    <<pc, op, address, pin, i2c, trace, devices, rx, counter, ready, value, reliabilty,
      status, peak_1, peak_0, distance, now, start_of_calibration, calibration_data,
      outcome, events, unfed, polls, sleeps, sensor, first, initialized, ret>>

(***************************************************************************)
(* Python built-ins the driver uses, computed as Python computes them.     *)
(***************************************************************************)

Pow2(n) == 2 ^ n

Byte == 0 .. 255

DecDigits == <<"0", "1", "2", "3", "4", "5", "6", "7", "8", "9">>

\* The value of one hexadecimal digit, -1 for any other character.
HexVal(c) ==
    CASE c = "0" -> 0  [] c = "1" -> 1  [] c = "2" -> 2  [] c = "3" -> 3
      [] c = "4" -> 4  [] c = "5" -> 5  [] c = "6" -> 6  [] c = "7" -> 7
      [] c = "8" -> 8  [] c = "9" -> 9
      [] c \in {"a", "A"} -> 10  [] c \in {"b", "B"} -> 11
      [] c \in {"c", "C"} -> 12  [] c \in {"d", "D"} -> 13
      [] c \in {"e", "E"} -> 14  [] c \in {"f", "F"} -> 15
      [] OTHER -> -1

\* The value of the digit string s in the given base, most significant digit first.
RECURSIVE DigitsValue(_, _)
DigitsValue(s, base) ==
    IF s = <<>> THEN 0
    ELSE DigitsValue(SubSeq(s, 1, Len(s) - 1), base) * base + HexVal(s[Len(s)])

startswith0x(s) == Len(s) >= 2 /\ s[1] = "0" /\ s[2] = "x"

Drop2(s) == SubSeq(s, 3, Len(s))

\* int(s, 0): the base is taken from the literal's prefix.
int0(s) ==
    IF Len(s) >= 2 /\ s[1] = "0" /\ s[2] \in {"x", "X"}
    THEN DigitsValue(Drop2(s), 16)
    ELSE DigitsValue(s, 10)

\* int(s, 2)
int2(s) == DigitsValue(s, 2)

\* str(n) for n >= 0: the decimal digits, most significant first.
RECURSIVE str(_)
str(n) ==
    IF n < 10 THEN <<DecDigits[n + 1]>>
    ELSE str(n \div 10) \o <<DecDigits[(n % 10) + 1]>>

\* bin(n)[2:] for n >= 0: the binary digits, most significant first.
RECURSIVE bin(_)
bin(n) ==
    IF n < 2 THEN <<DecDigits[n + 1]>>
    ELSE bin(n \div 2) \o <<DecDigits[(n % 2) + 1]>>

reversed(s) == [i \in 1 .. Len(s) |-> s[Len(s) + 1 - i]]

\* The k-th bit of n.
Bit(n, k) == (n \div Pow2(k)) % 2

\* a | b on bytes
BitOr(a, b) ==
    LET RECURSIVE Or(_)
        Or(k) == IF k > 7 THEN 0
                 ELSE (IF Bit(a, k) = 1 \/ Bit(b, k) = 1 THEN Pow2(k) ELSE 0) + Or(k + 1)
    IN Or(0)

\* bytes.fromhex(s): two hexadecimal digits per byte; an odd length or another
\* character raises ValueError.
RECURSIVE HexPairs(_)
HexPairs(s) ==
    IF s = <<>> THEN <<>>
    ELSE <<HexVal(s[1]) * 16 + HexVal(s[2])>> \o HexPairs(SubSeq(s, 3, Len(s)))

fromhex(s) ==
    IF Len(s) % 2 = 0 /\ \A i \in 1 .. Len(s) : HexVal(s[i]) >= 0
    THEN [ok |-> TRUE, bytes |-> HexPairs(s)]
    ELSE [ok |-> FALSE, bytes |-> <<>>]

\* int.from_bytes(value, sys.byteorder); the RP2040 and the test hosts are
\* little-endian.
RECURSIVE from_bytes(_)
from_bytes(b) ==
    IF b = <<>> THEN 0
    ELSE b[1] + 256 * from_bytes(SubSeq(b, 2, Len(b)))

(***************************************************************************)
(* The constants of the driver.                                            *)
(***************************************************************************)

DEFAULT_I2C_ADDR == <<"0", "x", "4", "1">>
CPU_READY_TIMEOUT == 200
APPLICATION_READY_TIMEOUT == 500
DATA_AVAILABLE_TIMEOUT == 500
APPLICATION == <<"0", "x", "c", "0">>
COMMAND_CALIBRATION == <<"0", "x", "0", "b">>
COMMAND_FACTORY_CALIBRATION == <<"0", "x", "0", "a">>
COMMAND_MEASURE == <<"0", "x", "0", "2">>
COMMAND_RESULT == <<"0", "x", "5", "5">>
INTERRUPT_MASK == <<"0", "x", "0", "1">>
CONTENT_CALIBRATION == <<"0", "x", "0", "a">>

\* The list with its last entry lost.
ALGO_STATE_ten ==
    << <<"0", "x", "B", "1">>, <<"0", "x", "A", "9">>, <<"0", "x", "0", "2">>,
       <<"0", "x", "0", "0">>, <<"0", "x", "0", "0">>, <<"0", "x", "0", "0">>,
       <<"0", "x", "0", "0">>, <<"0", "x", "0", "0">>, <<"0", "x", "0", "0">>,
       <<"0", "x", "0", "0">> >>

ALGO_STATE ==
    << <<"0", "x", "B", "1">>, <<"0", "x", "A", "9">>, <<"0", "x", "0", "2">>,
       <<"0", "x", "0", "0">>, <<"0", "x", "0", "0">>, <<"0", "x", "0", "0">>,
       <<"0", "x", "0", "0">>, <<"0", "x", "0", "0">>, <<"0", "x", "0", "0">>,
       <<"0", "x", "0", "0">>, <<"0", "x", "0", "0">> >>

CPU_RESET == <<"0", "x", "0", "7">>
CPU_READY == <<"0", "x", "0", "6">>

REGISTER_APPID == <<"0", "x", "0", "0">>
REGISTER_APPREQID == <<"0", "x", "0", "2">>
REGISTER_COMMAND == <<"0", "x", "1", "0">>
REGISTER_STATUS == <<"0", "x", "1", "D">>
REGISTER_REGISTER_CONTENTS == <<"0", "x", "1", "E">>
REGISTER_RESULT_INFO == <<"0", "x", "2", "1">>
REGISTER_DISTANCE_PEAK_0 == <<"0", "x", "2", "2">>
REGISTER_DISTANCE_PEAK_1 == <<"0", "x", "2", "3">>
REGISTER_FACTORY_CALIB_0 == <<"0", "x", "2", "0">>
REGISTER_STATE_DATA_WR_0 == <<"0", "x", "2", "E">>
REGISTER_ENABLE_REG == <<"0", "x", "E", "0">>
REGISTER_INT_STATUS == <<"0", "x", "E", "1">>
REGISTER_INT_ENAB == <<"0", "x", "E", "2">>

CALIBRATION_DATA_LENGTH == 14
MISSING_FACTORY_CALIBRATION == 39

\* The wall-clock budget of perform_calibration, in s, and its sleeps, in ms.
CALIBRATION_TIMEOUT_S == 30
CALIBRATION_POLL_MS == 50
CALIBRATION_SETTLE_MS == 10

ErrMissingFactCal ==
    <<"E", "r", "r", "M", "i", "s", "s", "i", "n", "g", "F", "a", "c", "t", "C", "a", "l">>

MissingFactCalDescription ==
    "There is no (or no valid) factory calibration on the device. Using default values instead."

hex_to_dec(hex_value) == int0(hex_value)

(***************************************************************************)
(* The environment: what the bus scan and the sensor's registers may       *)
(* answer.  Each action takes the set of answers it draws from, so that a  *)
(* specification can give one register its full range of bytes while the   *)
(* others keep to samples on both sides of what the code tests.            *)
(***************************************************************************)

AddressSamples ==
    {DEFAULT_I2C_ADDR, <<"0", "x", "4", "2">>, <<"6", "5">>}

ScanResults == {{}, {65}, {66}, {41, 65}}

\* One byte per read, as the bus returns it; the test fixture's 9999 comes as
\* two bytes.
StatusReads == {<<v>> : v \in Byte} \cup {<<15, 39>>}

StatusSamples == {<<39>>, <<0>>, <<38>>, <<255>>, <<15, 39>>}

\* Bit 6 (CPU ready) clear: 1, 191; set: 64, 255.
EnableSamples == {1, 64, 191, 255}

\* The application id: 192 (0xC0) is the measurement application.
AppIdSamples == {128, 192, 193}

\* The register contents: 85 (0x55) a result, 10 (0x0A) a calibration.
ContentsSamples == {10, 84, 85}

\* The interrupt status: 1 is the fixture's; 100 | 1 = 101 has three decimal digits.
IntStatusSamples == {1, 100}

ResultInfoSamples == {63, 1, 128}

PeakSamples == {0, 4, 226, 255}

\* The register contents while perform_calibration polls: 85 a stale result,
\* 10 (0x0A) the calibration.
CalibrationContentsSamples == {85, 10}

\* Where in its second the clock stands, in ms, when perform_calibration reads
\* it first.
ClockSamples == {0, 1990}

BlobSamples ==
    {[i \in 1 .. CALIBRATION_DATA_LENGTH |-> 65],
     [i \in 1 .. CALIBRATION_DATA_LENGTH |-> i]}

(***************************************************************************)
(* What a call returns.  Every field is always present, so that two        *)
(* results of different Python types can be compared.                      *)
(***************************************************************************)

None ==
    [kind |-> "none", b |-> FALSE, n |-> 0, bytes |-> <<>>, code |-> <<>>, desc |-> ""]

RetBool(x) == [None EXCEPT !.kind = "bool", !.b = x]
RetInt(x) == [None EXCEPT !.kind = "int", !.n = x]
RetBytes(x) == [None EXCEPT !.kind = "bytes", !.bytes = x]
RetStatus(c, d) == [None EXCEPT !.kind = "status", !.code = c, !.desc = d]

\* Python's truth test of a returned value, as in "assert not ...": None,
\* False, 0 and the empty bytes test false.
truth(r) ==
    CASE r.kind = "none" -> FALSE
      [] r.kind = "bool" -> r.b
      [] r.kind = "int" -> r.n # 0
      [] r.kind = "bytes" -> r.bytes # <<>>
      [] r.kind = "status" -> TRUE

(***************************************************************************)
(* The bus.  A transaction is logged with the device address and register  *)
(* as the transport receives them.  A read that repeats the transaction    *)
(* before it (a further poll of the same register) is logged once.         *)
(***************************************************************************)

Scan == [kind |-> "scan", dev |-> 0, reg |-> 0, data |-> <<>>, n |-> 0]

Write(register, data) ==
    [kind |-> "write", dev |-> hex_to_dec(address), reg |-> hex_to_dec(register),
     data |-> data, n |-> 0]

Read(register, byte_count) ==
    [kind |-> "read", dev |-> hex_to_dec(address), reg |-> hex_to_dec(register),
     data |-> <<>>, n |-> byte_count]

Logged(t, e) ==
    IF t # <<>> /\ t[Len(t)] = e /\ e.kind = "read" THEN t ELSE Append(t, e)

read_single_byte(raw) == from_bytes(raw)

\* What write_bytes hands to the transport for the string value.
write_bytes(val) ==
    LET stripped == IF startswith0x(val) THEN Drop2(val) ELSE val
        padded == IF Len(stripped) = 1 THEN <<"0">> \o stripped ELSE stripped
    IN fromhex(padded)

\* set_register_bit sends the one-character bytes literal b"1".
set_register_bit == <<49>>

\* The mask shifted one position too far.
is_bit_set_off_by_one(raw, position) ==
    Bit(read_single_byte(raw), hex_to_dec(position) + 1) = 1

is_bit_set(raw, position) ==
    Bit(read_single_byte(raw), hex_to_dec(position)) = 1

\* Any device on the bus taken for the sensor.
is_connected_any(found) == found # {}

\* hex_to_dec(self.address) in devices
is_connected(found) == hex_to_dec(address) \in found

(***************************************************************************)
(* The driver.  A step that reads one byte leaves it in rx; every other    *)
(* step clears rx.  The locals are cleared when the call ends.             *)
(***************************************************************************)

\* What the driver does to the watchdog, the clock and the bus, as the
\* sequence of its events: "feed" (self.wdt.feed()), "sleep" (utime.sleep_ms),
\* "read", "write" (a register access), "scan".  events keeps the last three
\* of the current call.
history == <<events, unfed, polls, sleeps>>

\* The positions inside the while loops of is_cpu_ready, is_application_ready
\* and is_data_available.
CpuPoll ==
    {"is_cpu_ready_read", "is_cpu_ready_feed", "is_cpu_ready_sleep",
     "is_cpu_ready_fed"}

ApplicationPoll ==
    {"is_application_ready_read", "is_application_ready_feed",
     "is_application_ready_sleep", "is_application_ready_fed"}

DataPoll ==
    {"is_data_available", "is_data_available_read", "is_data_available_test",
     "is_data_available_sleep", "is_data_available_fed"}

Polling == CpuPoll \cup ApplicationPoll \cup DataPoll

Window(s) == IF Len(s) > 3 THEN Tail(s) ELSE s

\* The step performs the event e ("none": no event).  start = "call": the
\* step begins a call of the facade; "enter": it begins a polling method
\* within a call; "on": it continues.  polls and sleeps count inside a
\* polling loop and end with it.  unfed is "start" from the beginning of a
\* call or of a polling method, and "sleep" from a sleep, until the next
\* feed makes it "none"; a sleep that finds it other than "none" makes it
\* "starved" for the rest of the call.
Happens(start, e) ==
    LET sofar == IF start = "call" THEN <<>> ELSE events
        before == IF start # "on" THEN "start" ELSE unfed
    IN /\ events' = IF e = "none" THEN sofar ELSE Window(Append(sofar, e))
       /\ unfed' = IF before = "starved" THEN "starved"
                   ELSE IF e = "feed" THEN "none"
                   ELSE IF e = "sleep"
                        THEN (IF before = "none" THEN "sleep" ELSE "starved")
                   ELSE before
       /\ polls' = IF pc' \notin Polling THEN 0
                   ELSE polls + (IF e = "read" THEN 1 ELSE 0)
       /\ sleeps' = IF pc' \notin Polling THEN 0
                    ELSE sleeps + (IF e = "sleep" THEN 1 ELSE 0)

loopvars == <<counter, ready>>

measured == <<reliabilty, status, peak_1, peak_0, distance>>

calibrating == <<now, start_of_calibration, calibration_data>>

locals == <<devices, value, loopvars, measured, calibrating>>

caller == <<address, pin, i2c>>

ClearLocals ==
    /\ devices' = {}
    /\ rx' = 0
    /\ counter' = 0
    /\ ready' = FALSE
    /\ value' = 0
    /\ reliabilty' = 0
    /\ status' = 0
    /\ peak_1' = 0
    /\ peak_0' = 0
    /\ distance' = 0
    /\ now' = 0
    /\ start_of_calibration' = 0
    /\ calibration_data' = <<>>

Call(name) == pc = "idle" /\ op' = name

At(label) == pc = label /\ UNCHANGED op

Goto(label) == pc' = label /\ outcome' = "none" /\ ret' = None

Return(r) == pc' = "idle" /\ outcome' = "return" /\ ret' = r /\ ClearLocals

Raise == pc' = "idle" /\ outcome' = "raise" /\ ret' = None /\ ClearLocals

\* No sensor in particular: every read draws from its sample set.
AnySensor == [scan |-> {}, wake |-> 0, app |-> 0, data |-> 0, int_status |-> 0]

\* No initialize() has ended yet.
NoCall == [ret |-> None, trace |-> <<>>, polls |-> 0, sleeps |-> 0]

caller_history == <<sensor, first, initialized>>

\* The state after construction: power_up (pin high, one feed), the bus opened.
Constructed ==
    /\ pc = "idle"
    /\ op = "__init__"
    /\ address = DEFAULT_I2C_ADDR
    /\ pin = "high"
    /\ i2c = "open"
    /\ trace = <<>>
    /\ devices = {}
    /\ rx = 0
    /\ counter = 0
    /\ ready = FALSE
    /\ value = 0
    /\ reliabilty = 0
    /\ status = 0
    /\ peak_1 = 0
    /\ peak_0 = 0
    /\ distance = 0
    /\ now = 0
    /\ start_of_calibration = 0
    /\ calibration_data = <<>>
    /\ outcome = "return"
    /\ events = <<"feed">>
    /\ unfed = "none"
    /\ polls = 0
    /\ sleeps = 0
    /\ ret = None
    /\ first = NoCall
    /\ initialized = "never"

Init == Constructed /\ sensor = AnySensor

\* The caller assigns self.address (the tests do).
set_address ==
    /\ Call("set_address")
    /\ \E a \in AddressSamples : address' = a
    /\ trace' = <<>>
    /\ Return(None)
    /\ UNCHANGED <<pin, i2c>>
    /\ Happens("call", "none")

\* A power_down that notifies the watchdog as power_up does.
power_down_fed ==
    /\ Call("power_down")
    /\ pin' = "low"
    /\ trace' = <<>>
    /\ Return(None)
    /\ UNCHANGED <<address, i2c>>
    /\ Happens("call", "feed")

power_down ==
    /\ Call("power_down")
    /\ pin' = "low"
    /\ trace' = <<>>
    /\ Return(None)
    /\ UNCHANGED <<address, i2c>>
    /\ Happens("call", "none")

\* power_up: pin high, then one feed.
power_up ==
    /\ Call("power_up")
    /\ pin' = "high"
    /\ trace' = <<>>
    /\ Return(None)
    /\ UNCHANGED <<address, i2c>>
    /\ Happens("call", "feed")

\* __init__ once it has assigned the fields: the pin not driven, no bus.
Entered ==
    /\ pc = "__init__"
    /\ op = "__init__"
    /\ address = DEFAULT_I2C_ADDR
    /\ pin = "unset"
    /\ i2c = "none"
    /\ trace = <<>>
    /\ devices = {}
    /\ rx = 0
    /\ counter = 0
    /\ ready = FALSE
    /\ value = 0
    /\ reliabilty = 0
    /\ status = 0
    /\ peak_1 = 0
    /\ peak_0 = 0
    /\ distance = 0
    /\ now = 0
    /\ start_of_calibration = 0
    /\ calibration_data = <<>>
    /\ outcome = "none"
    /\ events = <<>>
    /\ unfed = "start"
    /\ polls = 0
    /\ sleeps = 0
    /\ ret = None
    /\ first = NoCall
    /\ initialized = "never"

\* __init__: self.power_up()
init_power_up ==
    /\ At("__init__")
    /\ pin' = "high"
    /\ Goto("__init__i2c")
    /\ UNCHANGED <<address, i2c, trace, rx, locals>>
    /\ Happens("call", "feed")

\* __init__: self.i2c = I2C(...)
init_i2c ==
    /\ At("__init__i2c")
    /\ i2c' = "open"
    /\ trace' = <<>>
    /\ Return(None)
    /\ UNCHANGED <<address, pin>>
    /\ Happens("on", "none")

\* is_connected(): devices = self.i2c.scan()
is_connected_scan ==
    /\ Call("is_connected")
    /\ \E d \in ScanResults : devices' = d
    /\ trace' = <<Scan>>
    /\ rx' = 0
    /\ Goto("is_connected_return")
    /\ UNCHANGED <<value, loopvars, measured, calibrating, caller>>
    /\ Happens("call", "scan")

is_connected_return ==
    /\ At("is_connected_return")
    /\ Return(RetBool(is_connected(devices)))
    /\ UNCHANGED <<trace, caller>>
    /\ Happens("on", "none")

\* get_status(): status = self.read_single_byte(REGISTER_STATUS)
get_status(reads) ==
    /\ Call("get_status")
    /\ \E raw \in reads :
        /\ rx' = read_single_byte(raw)
        /\ status' = read_single_byte(raw)
    /\ trace' = <<Read(REGISTER_STATUS, 1)>>
    /\ Goto("get_status_return")
    /\ UNCHANGED <<devices, value, loopvars, reliabilty, peak_1, peak_0, distance,
                   calibrating, caller>>
    /\ Happens("call", "read")

\* The constant taken as the hexadecimal 0x39.
get_status_result_hex(st) ==
    IF st = 57
    THEN RetStatus(ErrMissingFactCal, MissingFactCalDescription)
    ELSE RetStatus(str(st), "N/A")

get_status_result(st) ==
    IF st = MISSING_FACTORY_CALIBRATION
    THEN RetStatus(ErrMissingFactCal, MissingFactCalDescription)
    ELSE RetStatus(str(st), "N/A")

get_status_return ==
    /\ At("get_status_return")
    /\ Return(get_status_result(status))
    /\ UNCHANGED <<trace, caller>>
    /\ Happens("on", "none")

get_current_calibration ==
    /\ Call("get_current_calibration")
    /\ \E blob \in BlobSamples :
        /\ trace' = <<Read(REGISTER_FACTORY_CALIB_0, CALIBRATION_DATA_LENGTH)>>
        /\ Return(RetBytes(blob))
    /\ UNCHANGED caller
    /\ Happens("call", "read")

(*************************** initialize ***********************************)

\* A handshake skipped once an earlier initialize() has returned True.
initialize_scan_once(scans) ==
    /\ Call("initialize")
    /\ IF initialized = "true"
       THEN trace' = <<>> /\ Return(RetBool(TRUE)) /\ Happens("call", "none")
       ELSE /\ \E d \in scans : devices' = d
            /\ trace' = <<Scan>>
            /\ rx' = 0
            /\ Goto("initialize_connected")
            /\ UNCHANGED <<value, loopvars, measured, calibrating>>
            /\ Happens("call", "scan")
    /\ UNCHANGED caller

\* initialize, first step: the scan of is_connected().
initialize_scan(scans) ==
    /\ Call("initialize")
    /\ \E d \in scans : devices' = d
    /\ trace' = <<Scan>>
    /\ rx' = 0
    /\ Goto("initialize_connected")
    /\ UNCHANGED <<value, loopvars, measured, calibrating, caller>>
    /\ Happens("call", "scan")

\* The return after the print forgotten: the reset follows in either case.
initialize_connected_no_return ==
    /\ At("initialize_connected")
    /\ Goto("reset_cpu") /\ rx' = 0 /\ UNCHANGED locals
    /\ UNCHANGED <<trace, caller>>
    /\ Happens("on", "none")

\* if not self.is_connected(): print, return False
initialize_connected ==
    /\ At("initialize_connected")
    /\ IF ~is_connected(devices)
       THEN Return(RetBool(FALSE))
       ELSE Goto("reset_cpu") /\ rx' = 0 /\ UNCHANGED locals
    /\ UNCHANGED <<trace, caller>>
    /\ Happens("on", "none")

reset_cpu ==
    /\ At("reset_cpu")
    /\ trace' = Append(trace, Write(REGISTER_ENABLE_REG, set_register_bit))
    /\ rx' = 0
    /\ Goto("is_cpu_ready")
    /\ UNCHANGED <<locals, caller>>
    /\ Happens("on", "write")

\* The locals of a polling loop set to c and r; rx cleared; the other locals
\* stay.
LoopLocals(c, r) ==
    /\ counter' = c
    /\ ready' = r
    /\ rx' = 0
    /\ UNCHANGED <<devices, value, measured, calibrating>>

\* The end of initialize once is_cpu_ready has returned r.
initialize_end(r) ==
    IF ~r THEN Return(RetBool(FALSE)) ELSE Return(RetBool(TRUE))

\* The while test with <= for <: one read more than the budget.
is_cpu_ready_loop_one_more(c, r) ==
    IF c <= CPU_READY_TIMEOUT /\ ~r
    THEN Goto("is_cpu_ready_read") /\ LoopLocals(c, r)
    ELSE initialize_end(r)

\* The while test of is_cpu_ready.
is_cpu_ready_loop(c, r) ==
    IF c < CPU_READY_TIMEOUT /\ ~r
    THEN Goto("is_cpu_ready_read") /\ LoopLocals(c, r)
    ELSE initialize_end(r)

\* counter = 0, ready = False, feed, first while test.
is_cpu_ready ==
    /\ At("is_cpu_ready")
    /\ is_cpu_ready_loop(0, FALSE)
    /\ UNCHANGED <<trace, caller>>
    /\ Happens("enter", "feed")

\* ready = self.is_bit_set(REGISTER_ENABLE_REG, CPU_READY)
is_cpu_ready_read(enables) ==
    /\ At("is_cpu_ready_read")
    /\ \E v \in enables :
        /\ rx' = read_single_byte(<<v>>)
        /\ ready' = is_bit_set(<<v>>, CPU_READY)
    /\ trace' = Logged(trace, Read(REGISTER_ENABLE_REG, 1))
    /\ Goto("is_cpu_ready_feed")
    /\ UNCHANGED <<devices, value, counter, measured, calibrating, caller>>
    /\ Happens("on", "read")

\* feed; not ready: counter += 1 and on to the sleep; ready: the while test.
is_cpu_ready_feed ==
    /\ At("is_cpu_ready_feed")
    /\ IF ~ready
       THEN Goto("is_cpu_ready_sleep") /\ LoopLocals(counter + 1, ready)
       ELSE is_cpu_ready_loop(counter, ready)
    /\ UNCHANGED <<trace, caller>>
    /\ Happens("on", "feed")

is_cpu_ready_sleep ==
    /\ At("is_cpu_ready_sleep")
    /\ Goto("is_cpu_ready_fed")
    /\ rx' = 0
    /\ UNCHANGED <<trace, locals, caller>>
    /\ Happens("on", "sleep")

\* The feed after the sleep left out.
is_cpu_ready_fed_unfed ==
    /\ At("is_cpu_ready_fed")
    /\ is_cpu_ready_loop(counter, ready)
    /\ UNCHANGED <<trace, caller>>
    /\ Happens("on", "none")

\* The feed after the sleep, then the while test.
is_cpu_ready_fed ==
    /\ At("is_cpu_ready_fed")
    /\ is_cpu_ready_loop(counter, ready)
    /\ UNCHANGED <<trace, caller>>
    /\ Happens("on", "feed")

\* The steps of initialize, with the sets its scan and its reads of the
\* enable register draw from.
initialize(scans, enables) ==
    \/ initialize_scan(scans)
    \/ initialize_connected
    \/ reset_cpu
    \/ is_cpu_ready
    \/ is_cpu_ready_read(enables)
    \/ is_cpu_ready_feed
    \/ is_cpu_ready_sleep
    \/ is_cpu_ready_fed

(*************************** get_measurement ******************************)

\* The measure command forgotten: from the application straight to the interrupt.
get_measurement_application_no_start(r) ==
    IF ~r
    THEN Return(RetBool(FALSE))
    ELSE Goto("enable_interrupt") /\ LoopLocals(0, FALSE)

\* get_measurement once is_application_ready has returned r.
get_measurement_application(r) ==
    IF ~r
    THEN Return(RetBool(FALSE))
    ELSE Goto("start_measurement_application") /\ LoopLocals(0, FALSE)

\* The while test of is_application_ready.
is_application_ready_loop(c, r) ==
    IF c < APPLICATION_READY_TIMEOUT /\ ~r
    THEN Goto("is_application_ready_read") /\ LoopLocals(c, r)
    ELSE get_measurement_application(r)

\* get_measurement, first step: the application request; then counter = 0,
\* ready = False and the first while test of is_application_ready.
\* A measurement refused unless the latest initialize() returned True.
load_measurement_application_guarded ==
    /\ Call("get_measurement")
    /\ IF initialized # "true"
       THEN trace' = <<>> /\ Return(RetBool(FALSE)) /\ Happens("call", "none")
       ELSE LET w == write_bytes(APPLICATION)
            IN /\ trace' = <<Write(REGISTER_APPREQID, w.bytes)>>
               /\ is_application_ready_loop(0, FALSE)
               /\ Happens("call", "write")
    /\ UNCHANGED caller

load_measurement_application ==
    /\ Call("get_measurement")
    /\ LET w == write_bytes(APPLICATION)
       IN IF ~w.ok
          THEN trace' = <<>> /\ Raise /\ Happens("call", "none")
          ELSE /\ trace' = <<Write(REGISTER_APPREQID, w.bytes)>>
               /\ is_application_ready_loop(0, FALSE)
               /\ Happens("call", "write")
    /\ UNCHANGED caller

\* ready = self.read_single_byte(REGISTER_APPID) == self.hex_to_dec(APPLICATION)
is_application_ready_read(app_ids) ==
    /\ At("is_application_ready_read")
    /\ \E v \in app_ids :
        /\ rx' = read_single_byte(<<v>>)
        /\ ready' = (read_single_byte(<<v>>) = hex_to_dec(APPLICATION))
    /\ trace' = Logged(trace, Read(REGISTER_APPID, 1))
    /\ Goto("is_application_ready_feed")
    /\ UNCHANGED <<devices, value, counter, measured, calibrating, caller>>
    /\ Happens("on", "read")

\* feed; not ready: counter += 1 and on to the sleep; ready: the while test.
is_application_ready_feed ==
    /\ At("is_application_ready_feed")
    /\ IF ~ready
       THEN Goto("is_application_ready_sleep") /\ LoopLocals(counter + 1, ready)
       ELSE is_application_ready_loop(counter, ready)
    /\ UNCHANGED <<trace, caller>>
    /\ Happens("on", "feed")

is_application_ready_sleep ==
    /\ At("is_application_ready_sleep")
    /\ Goto("is_application_ready_fed")
    /\ rx' = 0
    /\ UNCHANGED <<trace, locals, caller>>
    /\ Happens("on", "sleep")

\* The feed after the sleep, then the while test.
is_application_ready_fed ==
    /\ At("is_application_ready_fed")
    /\ is_application_ready_loop(counter, ready)
    /\ UNCHANGED <<trace, caller>>
    /\ Happens("on", "feed")

start_measurement_application ==
    /\ At("start_measurement_application")
    /\ LET w == write_bytes(COMMAND_MEASURE)
       IN IF ~w.ok
          THEN UNCHANGED trace /\ Raise /\ Happens("on", "none")
          ELSE /\ trace' = Append(trace, Write(REGISTER_COMMAND, w.bytes))
               /\ Goto("enable_interrupt")
               /\ Happens("on", "write")
               /\ rx' = 0
               /\ UNCHANGED locals
    /\ UNCHANGED caller

\* The timeout of is_data_available ignored: the result is read all the same.
get_measurement_data_unchecked(r) ==
    Goto("get_measurement_feed") /\ LoopLocals(0, FALSE)

\* get_measurement once is_data_available has returned r.
get_measurement_data(r) ==
    IF ~r
    THEN Return(RetBool(FALSE))
    ELSE Goto("get_measurement_feed") /\ LoopLocals(0, FALSE)

\* The while test of is_data_available.
is_data_available_loop(c, r) ==
    IF c < DATA_AVAILABLE_TIMEOUT /\ ~r
    THEN Goto("is_data_available") /\ LoopLocals(c, r)
    ELSE get_measurement_data(r)

\* value = self.read_single_byte(REGISTER_INT_STATUS); value = value | mask
enable_interrupt(reads) ==
    /\ At("enable_interrupt")
    /\ \E v \in reads :
        /\ rx' = read_single_byte(<<v>>)
        /\ value' = BitOr(read_single_byte(<<v>>), int0(INTERRUPT_MASK))
    /\ trace' = Logged(trace, Read(REGISTER_INT_STATUS, 1))
    /\ Goto("enable_interrupt_write")
    /\ UNCHANGED <<devices, loopvars, measured, calibrating, caller>>
    /\ Happens("on", "read")

\* write_bytes(REGISTER_INT_ENAB, str(value)); then back in the caller:
\* get_measurement goes on to is_data_available, perform_calibration to its
\* command.
enable_interrupt_write ==
    /\ At("enable_interrupt_write")
    /\ LET w == write_bytes(str(value))
       IN IF ~w.ok
          THEN UNCHANGED trace /\ Raise /\ Happens("on", "none")
          ELSE /\ trace' = Append(trace, Write(REGISTER_INT_ENAB, w.bytes))
               /\ IF op = "get_measurement"
                  THEN /\ is_data_available_loop(0, FALSE)
                       /\ Happens("enter", "write")
                  ELSE /\ Goto("perform_calibration_command")
                       /\ Happens("on", "write")
                       /\ rx' = 0
                       /\ UNCHANGED locals
    /\ UNCHANGED caller

\* The feed that opens an iteration of is_data_available.
is_data_available ==
    /\ At("is_data_available")
    /\ Goto("is_data_available_read")
    /\ rx' = 0
    /\ UNCHANGED <<trace, locals, caller>>
    /\ Happens("on", "feed")

\* result = read; data_available = result == int(COMMAND_RESULT, 0)
is_data_available_read(contents) ==
    /\ At("is_data_available_read")
    /\ \E v \in contents :
        /\ rx' = read_single_byte(<<v>>)
        /\ ready' = (read_single_byte(<<v>>) = int0(COMMAND_RESULT))
    /\ trace' = Logged(trace, Read(REGISTER_REGISTER_CONTENTS, 1))
    /\ Goto("is_data_available_test")
    /\ UNCHANGED <<devices, value, counter, measured, calibrating, caller>>
    /\ Happens("on", "read")

\* not available: counter += 1 and on to the sleep; available: the while test.
is_data_available_test ==
    /\ At("is_data_available_test")
    /\ IF ~ready
       THEN Goto("is_data_available_sleep") /\ LoopLocals(counter + 1, ready)
       ELSE is_data_available_loop(counter, ready)
    /\ UNCHANGED <<trace, caller>>
    /\ Happens("on", "none")

is_data_available_sleep ==
    /\ At("is_data_available_sleep")
    /\ Goto("is_data_available_fed")
    /\ rx' = 0
    /\ UNCHANGED <<trace, locals, caller>>
    /\ Happens("on", "sleep")

\* The feed after the sleep, then the while test.
is_data_available_fed ==
    /\ At("is_data_available_fed")
    /\ is_data_available_loop(counter, ready)
    /\ UNCHANGED <<trace, caller>>
    /\ Happens("on", "feed")

get_measurement_feed ==
    /\ At("get_measurement_feed")
    /\ Goto("get_measurement_result_info")
    /\ rx' = 0
    /\ UNCHANGED <<trace, locals, caller>>
    /\ Happens("on", "feed")

\* s[i:j] of Python
Slice(s, i, j) == SubSeq(s, i + 1, IF j < Len(s) THEN j ELSE Len(s))

\* The reversal left out.
result_info_string_unreversed(b) ==
    LET s == bin(b)
    IN s \o [i \in 1 .. (IF Len(s) < 8 THEN 8 - Len(s) ELSE 0) |-> "0"]

\* The result-info string: the binary digits reversed, filled with "0" on the
\* right up to 8 characters.
result_info_string(b) ==
    LET s == reversed(bin(b))
    IN s \o [i \in 1 .. (IF Len(s) < 8 THEN 8 - Len(s) ELSE 0) |-> "0"]

result_info_reliabilty(b) == int2(Slice(result_info_string(b), 0, 6))

result_info_status(b) == int2(Slice(result_info_string(b), 6, 8))

get_measurement_result_info(reads) ==
    /\ At("get_measurement_result_info")
    /\ \E v \in reads :
        /\ rx' = read_single_byte(<<v>>)
        /\ reliabilty' = result_info_reliabilty(read_single_byte(<<v>>))
        /\ status' = result_info_status(read_single_byte(<<v>>))
    /\ trace' = Logged(trace, Read(REGISTER_RESULT_INFO, 1))
    /\ Goto("get_measurement_fed")
    /\ UNCHANGED <<devices, value, loopvars, peak_1, peak_0, distance, calibrating,
                   caller>>
    /\ Happens("on", "read")

\* The feed between the result-info read and the peak reads left out.
get_measurement_fed_unfed ==
    /\ At("get_measurement_fed")
    /\ Goto("get_measurement_peak_1")
    /\ rx' = 0
    /\ UNCHANGED <<trace, locals, caller>>
    /\ Happens("on", "none")

get_measurement_fed ==
    /\ At("get_measurement_fed")
    /\ Goto("get_measurement_peak_1")
    /\ rx' = 0
    /\ UNCHANGED <<trace, locals, caller>>
    /\ Happens("on", "feed")

get_measurement_peak_1(reads) ==
    /\ At("get_measurement_peak_1")
    /\ \E v \in reads :
        /\ rx' = read_single_byte(<<v>>)
        /\ peak_1' = read_single_byte(<<v>>)
    /\ trace' = Logged(trace, Read(REGISTER_DISTANCE_PEAK_1, 1))
    /\ Goto("get_measurement_peak_0")
    /\ UNCHANGED <<devices, value, loopvars, reliabilty, status, peak_0, distance,
                   calibrating, caller>>
    /\ Happens("on", "read")

\* The two peak bytes in the wrong order.
get_measurement_distance_swapped(p1, p0) == p0 * Pow2(8) + p1

\* distance = peak_1; distance = distance << 8; distance += peak_0
get_measurement_distance(p1, p0) == p1 * Pow2(8) + p0

get_measurement_peak_0(reads) ==
    /\ At("get_measurement_peak_0")
    /\ \E v \in reads :
        /\ rx' = read_single_byte(<<v>>)
        /\ peak_0' = read_single_byte(<<v>>)
        /\ distance' = get_measurement_distance(peak_1, read_single_byte(<<v>>))
    /\ trace' = Logged(trace, Read(REGISTER_DISTANCE_PEAK_0, 1))
    /\ Goto("get_measurement_return")
    /\ UNCHANGED <<devices, value, loopvars, reliabilty, status, peak_1, calibrating,
                   caller>>
    /\ Happens("on", "read")

\* The last feed, the debug print, return distance.
get_measurement_return ==
    /\ At("get_measurement_return")
    /\ Return(RetInt(distance))
    /\ UNCHANGED <<trace, caller>>
    /\ Happens("on", "feed")

\* The steps of get_measurement, with the sets its kept reads draw from.
get_measurement(app_ids, int_status, contents, result_info, peaks) ==
    \/ load_measurement_application
    \/ is_application_ready_read(app_ids)
    \/ is_application_ready_feed
    \/ is_application_ready_sleep
    \/ is_application_ready_fed
    \/ start_measurement_application
    \/ enable_interrupt(int_status)
    \/ enable_interrupt_write
    \/ is_data_available
    \/ is_data_available_read(contents)
    \/ is_data_available_test
    \/ is_data_available_sleep
    \/ is_data_available_fed
    \/ get_measurement_feed
    \/ get_measurement_result_info(result_info)
    \/ get_measurement_fed
    \/ get_measurement_peak_1(peaks)
    \/ get_measurement_peak_0(peaks)
    \/ get_measurement_return

(*************************** calibration **********************************)

\* utime.time(): whole seconds.
time(ms) == ms \div 1000

\* The while test of perform_calibration at clock t; past the budget the
\* loop ends and calibration_data is returned as it is.
perform_calibration_loop(t, start) ==
    IF time(t) - start < CALIBRATION_TIMEOUT_S
    THEN Goto("perform_calibration_feed")
    ELSE Goto("perform_calibration_return")

\* perform_calibration, first step: calibration_data = b"", feed.
perform_calibration ==
    /\ Call("perform_calibration")
    /\ trace' = <<>>
    /\ rx' = 0
    /\ Goto("enable_interrupt")
    /\ UNCHANGED <<locals, caller>>
    /\ Happens("call", "feed")

perform_calibration_command ==
    /\ At("perform_calibration_command")
    /\ LET w == write_bytes(COMMAND_FACTORY_CALIBRATION)
       IN IF ~w.ok
          THEN UNCHANGED trace /\ Raise /\ Happens("on", "none")
          ELSE /\ trace' = Append(trace, Write(REGISTER_COMMAND, w.bytes))
               /\ Goto("perform_calibration_start")
               /\ Happens("on", "write")
               /\ rx' = 0
               /\ UNCHANGED locals
    /\ UNCHANGED caller

\* start_of_calibration = utime.time(), then the first while test.
perform_calibration_start ==
    /\ At("perform_calibration_start")
    /\ \E t \in ClockSamples :
        /\ now' = t
        /\ start_of_calibration' = time(t)
        /\ perform_calibration_loop(t, time(t))
    /\ rx' = 0
    /\ UNCHANGED <<trace, devices, value, loopvars, measured, calibration_data, caller>>
    /\ Happens("on", "none")

perform_calibration_feed ==
    /\ At("perform_calibration_feed")
    /\ Goto("perform_calibration_sleep")
    /\ rx' = 0
    /\ UNCHANGED <<trace, locals, caller>>
    /\ Happens("on", "feed")

perform_calibration_sleep ==
    /\ At("perform_calibration_sleep")
    /\ now' = now + CALIBRATION_POLL_MS
    /\ Goto("perform_calibration_read")
    /\ rx' = 0
    /\ UNCHANGED <<trace, devices, value, loopvars, measured, start_of_calibration,
                   calibration_data, caller>>
    /\ Happens("on", "sleep")

\* The poll and its print; the marker: on to the settle delay; else the while
\* test.
perform_calibration_read ==
    /\ At("perform_calibration_read")
    /\ \E v \in CalibrationContentsSamples :
        /\ rx' = read_single_byte(<<v>>)
        /\ value' = read_single_byte(<<v>>)
        /\ IF read_single_byte(<<v>>) = hex_to_dec(CONTENT_CALIBRATION)
           THEN Goto("perform_calibration_settle")
           ELSE perform_calibration_loop(now, start_of_calibration)
    /\ trace' = Logged(trace, Read(REGISTER_REGISTER_CONTENTS, 1))
    /\ UNCHANGED <<devices, loopvars, measured, calibrating, caller>>
    /\ Happens("on", "read")

\* The feed before the settle delay.
perform_calibration_settle ==
    /\ At("perform_calibration_settle")
    /\ Goto("perform_calibration_settle_sleep")
    /\ rx' = 0
    /\ UNCHANGED <<trace, locals, caller>>
    /\ Happens("on", "feed")

\* The settle delay.
perform_calibration_settle_sleep ==
    /\ At("perform_calibration_settle_sleep")
    /\ now' = now + CALIBRATION_SETTLE_MS
    /\ Goto("perform_calibration_read_bytes")
    /\ rx' = 0
    /\ UNCHANGED <<trace, devices, value, loopvars, measured, start_of_calibration,
                   calibration_data, caller>>
    /\ Happens("on", "sleep")

\* calibration_data = read_bytes(...); break
perform_calibration_read_bytes ==
    /\ At("perform_calibration_read_bytes")
    /\ \E blob \in BlobSamples : calibration_data' = blob
    /\ trace' = Logged(trace, Read(REGISTER_FACTORY_CALIB_0, CALIBRATION_DATA_LENGTH))
    /\ Goto("perform_calibration_return")
    /\ rx' = 0
    /\ UNCHANGED <<devices, value, loopvars, measured, now, start_of_calibration,
                   caller>>
    /\ Happens("on", "read")

perform_calibration_return ==
    /\ At("perform_calibration_return")
    /\ Return(RetBytes(calibration_data))
    /\ UNCHANGED <<trace, caller>>
    /\ Happens("on", "none")

\* The entries joined with their "0x" prefixes.
RECURSIVE join_algo_state_prefixed(_)
join_algo_state_prefixed(entries) ==
    IF entries = <<>> THEN <<>>
    ELSE Head(entries) \o join_algo_state_prefixed(Tail(entries))

\* "".join(entry[2:] for entry in ALGO_STATE)
RECURSIVE join_algo_state(_)
join_algo_state(entries) ==
    IF entries = <<>> THEN <<>>
    ELSE Drop2(Head(entries)) \o join_algo_state(Tail(entries))

\* set_calibration(calibration_data), first step: the command.  The caller
\* passes the blob its last call returned.
set_calibration ==
    /\ Call("set_calibration")
    /\ ret.kind = "bytes"
    /\ LET w == write_bytes(COMMAND_CALIBRATION)
       IN IF ~w.ok
          THEN trace' = <<>> /\ Raise /\ Happens("call", "none")
          ELSE /\ trace' = <<Write(REGISTER_COMMAND, w.bytes)>>
               /\ Goto("set_calibration_data")
               /\ Happens("call", "write")
               /\ calibration_data' = ret.bytes
               /\ rx' = 0
               /\ UNCHANGED <<devices, value, loopvars, measured, now,
                              start_of_calibration>>
    /\ UNCHANGED caller

\* self.i2c.writeto_mem(address, REGISTER_FACTORY_CALIB_0, calibration_data)
set_calibration_data ==
    /\ At("set_calibration_data")
    /\ trace' = Append(trace, Write(REGISTER_FACTORY_CALIB_0, calibration_data))
    /\ Goto("set_calibration_state")
    /\ rx' = 0
    /\ UNCHANGED <<locals, caller>>
    /\ Happens("on", "write")

set_calibration_state ==
    /\ At("set_calibration_state")
    /\ LET w == write_bytes(join_algo_state(ALGO_STATE))
       IN IF ~w.ok
          THEN UNCHANGED trace /\ Raise /\ Happens("on", "none")
          ELSE /\ trace' = Append(trace, Write(REGISTER_STATE_DATA_WR_0, w.bytes))
               /\ Return(None)
               /\ Happens("on", "write")
    /\ UNCHANGED caller

\* The steps of the calibration operations.
calibration ==
    \/ perform_calibration
    \/ perform_calibration_command
    \/ perform_calibration_start
    \/ perform_calibration_feed
    \/ perform_calibration_sleep
    \/ perform_calibration_read
    \/ perform_calibration_settle
    \/ perform_calibration_settle_sleep
    \/ perform_calibration_read_bytes
    \/ perform_calibration_return
    \/ set_calibration
    \/ set_calibration_data
    \/ set_calibration_state

\* Any call of the facade, in any order.
Facade ==
    \/ set_address
    \/ power_down
    \/ power_up
    \/ is_connected_scan
    \/ is_connected_return
    \/ get_status(StatusSamples)
    \/ get_status_return
    \/ get_current_calibration
    \/ initialize(ScanResults, EnableSamples)
    \/ get_measurement(AppIdSamples, IntStatusSamples, ContentsSamples,
                       ResultInfoSamples, PeakSamples)
    \/ calibration

Next == Facade /\ UNCHANGED caller_history

Spec == Init /\ [][Next]_vars

\* get_measurement alone, the two peak registers answering any byte.
FixtureIntStatus == {1}

FixtureResultInfo == {63}

NextPeaks ==
    /\ get_measurement(AppIdSamples, FixtureIntStatus, ContentsSamples,
                       FixtureResultInfo, Byte)
    /\ UNCHANGED caller_history

SpecPeaks == Init /\ [][NextPeaks]_vars

\* get_measurement alone, the result-info register answering any byte.
NextInfo ==
    /\ get_measurement(AppIdSamples, FixtureIntStatus, ContentsSamples, Byte,
                       PeakSamples)
    /\ UNCHANGED caller_history

SpecInfo == Init /\ [][NextInfo]_vars

\* get_status alone, the status register answering any byte.
NextStatus ==
    /\ get_status(StatusReads) \/ get_status_return
    /\ UNCHANGED caller_history

SpecStatus == Init /\ [][NextStatus]_vars

\* The constructor, then the calls that drive or might drive the enable pin.
InitPower == Entered /\ sensor = AnySensor

NextPower ==
    /\ \/ init_power_up
       \/ init_i2c
       \/ power_down
       \/ power_up
       \/ initialize(ScanResults, EnableSamples)
       \/ get_measurement(AppIdSamples, IntStatusSamples, ContentsSamples,
                          FixtureResultInfo, PeakSamples)
    /\ UNCHANGED caller_history

SpecPower == InitPower /\ [][NextPower]_vars

\* Sensors whose answers do not change from one call to the next: the scan
\* result; how many reads of the enable register, of the application id and
\* of the register contents answer "not yet"; the interrupt status.
Sensors ==
    [scan : {{}, {65}},
     wake : {0, 2, CPU_READY_TIMEOUT},
     app : {0, APPLICATION_READY_TIMEOUT},
     data : {0, 1, DATA_AVAILABLE_TIMEOUT},
     int_status : {1, 100}]

\* The answer of such a sensor to the next read of a polling loop that gets
\* notyet answers of busy before the answer done.
Answer(notyet, busy, done) == {IF polls < notyet THEN busy ELSE done}

InitMain == Constructed /\ sensor \in Sensors

\* tmf8805.initialize(), as the loop of main.py calls it.
MainInitialize ==
    /\ pc = "idle" => outcome # "raise"
    /\ initialize({sensor.scan}, Answer(sensor.wake, 1, 64))
    /\ initialized' = IF pc' # "idle" THEN initialized
                      ELSE IF ret' = RetBool(TRUE) THEN "true" ELSE "false"
    /\ first' = IF pc' = "idle" /\ first = NoCall
                THEN [ret |-> ret', trace |-> trace', polls |-> polls,
                      sleeps |-> sleeps]
                ELSE first
    /\ UNCHANGED sensor

\* distance = tmf8805.get_measurement(), with or without an initialize()
\* before it.
MainMeasurement ==
    /\ pc = "idle" => outcome # "raise"
    /\ get_measurement(Answer(sensor.app, 128, 192), {sensor.int_status},
                       Answer(sensor.data, 10, 85), FixtureResultInfo,
                       {IF pc = "get_measurement_peak_1" THEN 4 ELSE 226})
    /\ UNCHANGED caller_history

\* The two calls of main.py's loop.  main.py alternates them, initialize()
\* first; here they come in any order, which covers that loop and a caller
\* that measures without an initialize().
NextMain == MainInitialize \/ MainMeasurement

SpecMain == InitMain /\ [][NextMain]_vars

(***************************************************************************)
(* The properties.                                                         *)
(***************************************************************************)

\* The bus address the configured address string stands for.
AddressNumber ==
    CASE address = <<"0", "x", "4", "1">> -> 65
      [] address = <<"0", "x", "4", "2">> -> 66
      [] address = <<"6", "5">> -> 65

IsWrite(e, reg, data) ==
    e.kind = "write" /\ e.dev = AddressNumber /\ e.reg = reg /\ e.data = data

IsRead(e, reg, n) ==
    e.kind = "read" /\ e.dev = AddressNumber /\ e.reg = reg /\ e.n = n

Last(t) == t[Len(t)]

\* C1: when get_measurement has read the two peak bytes (peak_1 from register
\* 0x23, then peak_0 from register 0x22), it returns the integer
\* peak_1 * 256 + peak_0, a value in 0..65535; peaks 4 and 226 give 1250.
C1_Distance ==
    [][/\ pc = "get_measurement_peak_0" =>
            peak_1 = rx /\ IsRead(Last(trace), 35, 1)
       /\ pc = "get_measurement_return" =>
            /\ peak_0 = rx
            /\ IsRead(Last(trace), 34, 1)
            /\ pc' = "idle"
            /\ outcome' = "return"
            /\ ret' = RetInt(peak_1 * 256 + peak_0)
            /\ ret'.n \in 0 .. 65535
            /\ (peak_1 = 4 /\ peak_0 = 226 => ret'.n = 1250)
       /\ (op = "get_measurement" /\ pc' = "idle" /\ ret'.kind = "int") =>
            pc = "get_measurement_return"]_vars

C1_Witness ==
    pc = "idle" /\ op = "get_measurement" /\ outcome = "return" /\ ret = RetInt(1250)

\* The transactions of get_measurement up to the application poll, and up to
\* the data poll.
ApplicationPrefix(t) ==
    /\ Len(t) = 2
    /\ IsWrite(t[1], 2, <<192>>)
    /\ IsRead(t[2], 0, 1)

DataPrefix(t) ==
    /\ Len(t) = 6
    /\ ApplicationPrefix(SubSeq(t, 1, 2))
    /\ IsWrite(t[3], 16, <<2>>)
    /\ IsRead(t[4], 225, 1)
    /\ t[5].kind = "write" /\ t[5].dev = AddressNumber /\ t[5].reg = 226
    /\ IsRead(t[6], 30, 1)

\* C2: when a polling loop of get_measurement ends without its condition
\* met, the call returns False at once, with no bus transaction after the
\* last poll: after the application poll the bus has seen only the request
\* write and the polls (no command, no interrupt enable, no result read);
\* after the data poll it has seen no read of the result-info or of a peak
\* register.
C2_TimeoutReturnsFalse ==
    [][/\ (pc \in ApplicationPoll /\ pc' \notin ApplicationPoll /\ ~ready) =>
            /\ pc' = "idle"
            /\ outcome' = "return"
            /\ ret' = RetBool(FALSE)
            /\ trace' = trace
            /\ ApplicationPrefix(trace)
       /\ (pc \in DataPoll /\ pc' \notin DataPoll /\ ~ready) =>
            /\ pc' = "idle"
            /\ outcome' = "return"
            /\ ret' = RetBool(FALSE)
            /\ trace' = trace
            /\ DataPrefix(trace)]_vars

C2_Witness ==
    /\ pc = "idle"
    /\ op = "get_measurement"
    /\ ret = RetBool(FALSE)
    /\ DataPrefix(trace)

\* The transactions of a whole get_measurement.
MeasurementOrder(t) ==
    /\ Len(t) = 9
    /\ DataPrefix(SubSeq(t, 1, 6))
    /\ IsRead(t[7], 33, 1)
    /\ IsRead(t[8], 35, 1)
    /\ IsRead(t[9], 34, 1)

\* C3: a get_measurement that returns a distance has issued, in this order:
\* the write of 0xC0 to register 0x02, reads of register 0x00, the write of
\* 0x02 to register 0x10, the read of register 0xE1, the write to register
\* 0xE2, reads of register 0x1E, the read of register 0x21, the reads of the
\* two peak registers.  The application poll ends, and the command is
\* written, only on a read of 0xC0; the data poll ends, and the result is
\* read, only on a read of 0x55.
C3_Order ==
    [][/\ pc' = "start_measurement_application" =>
            /\ pc = "is_application_ready_feed"
            /\ rx = 192
            /\ ApplicationPrefix(trace)
       /\ pc' = "get_measurement_feed" =>
            /\ pc = "is_data_available_test"
            /\ rx = 85
            /\ DataPrefix(trace)
       /\ (op' = "get_measurement" /\ pc' = "idle" /\ ret'.kind = "int") =>
            MeasurementOrder(trace')]_vars

C3_Witness ==
    /\ pc = "idle"
    /\ op = "get_measurement"
    /\ ret.kind = "int"
    /\ MeasurementOrder(trace)

\* C4: when the configured address is not in the scan result, initialize
\* returns False with the scan as its only bus transaction: no write to the
\* enable register and no read of it; the reset and the polling are reached
\* only with the address in the scan result.
C4_AbsentShortCircuits ==
    [][/\ (pc = "initialize_connected" /\ AddressNumber \notin devices) =>
            /\ pc' = "idle"
            /\ outcome' = "return"
            /\ ret' = RetBool(FALSE)
            /\ trace' = <<Scan>>
       /\ (op' = "initialize" /\ pc' \notin {"idle", "initialize_connected"}) =>
            AddressNumber \in devices']_vars

C4_Witness ==
    /\ pc = "idle"
    /\ op = "initialize"
    /\ ret = RetBool(FALSE)
    /\ trace = <<Scan>>

\* C5: initialize returns True exactly when the address is in the scan result
\* and the enable register has just been read with bit 6 set after fewer than
\* 200 reads without it; it returns False from the polling only after 200
\* reads without it.  Whenever it returns, the bus has seen the scan alone,
\* or the scan, then the reset write, then reads of the enable register.
C5_InitializeResult ==
    [][(op = "initialize" /\ pc # "idle" /\ pc' = "idle") =>
            /\ outcome' = "return"
            /\ ret'.kind = "bool"
            /\ ret'.b <=> /\ AddressNumber \in devices
                          /\ pc = "is_cpu_ready_feed"
                          /\ (rx \div 64) % 2 = 1
                          /\ counter < 200
            /\ (~ret'.b /\ AddressNumber \in devices) =>
                    pc = "is_cpu_ready_fed" /\ counter = 200
            /\ \/ trace' = <<Scan>> /\ AddressNumber \notin devices
               \/ /\ Len(trace') = 3
                  /\ trace'[1] = Scan
                  /\ trace'[2].kind = "write" /\ trace'[2].reg = 224
                  /\ IsRead(trace'[3], 224, 1)]_vars

C5_Witness ==
    /\ pc = "idle"
    /\ op = "initialize"
    /\ ret = RetBool(TRUE)
    /\ Len(trace) = 3

\* C6: is_connected returns True exactly when the bus address the configured
\* address stands for is in the scan result.
C6_Connected ==
    [][pc = "is_connected_return" =>
            /\ pc' = "idle"
            /\ outcome' = "return"
            /\ ret' = RetBool(AddressNumber \in devices)]_vars

\* The address changed to 0x42, and is_connected then False.
C6_Witness ==
    /\ pc = "idle"
    /\ op = "is_connected"
    /\ address = <<"0", "x", "4", "2">>
    /\ ret = RetBool(FALSE)

IsDecimalOf(code, n) ==
    /\ Len(code) >= 1
    /\ \A i \in 1 .. Len(code) : \E d \in 1 .. 10 : code[i] = DecDigits[d]
    /\ Len(code) > 1 => code[1] # "0"
    /\ DigitsValue(code, 10) = n

\* C7: get_status returns, for the raw status 39, the code "ErrMissingFactCal"
\* and its description; for every other raw status the code is the decimal
\* string of the raw value and the description "N/A"; it never raises.
C7_Status ==
    [][pc = "get_status_return" =>
            /\ status = rx
            /\ pc' = "idle"
            /\ outcome' = "return"
            /\ ret'.kind = "status"
            /\ rx = 39 =>
                   /\ ret'.code = ErrMissingFactCal
                   /\ ret'.desc = MissingFactCalDescription
            /\ rx # 39 =>
                   /\ IsDecimalOf(ret'.code, rx)
                   /\ ret'.desc = "N/A"]_vars

C7_Witness ==
    /\ pc = "idle"
    /\ op = "get_status"
    /\ outcome = "return"
    /\ ret.code = <<"2", "5", "5">>
    /\ ret.desc = "N/A"

\* Bit k of the byte b.
BitOf(b, k) == (b \div (2 ^ k)) % 2

\* C8: for the result-info byte b, with its 8 bits written least significant
\* first, reliabilty is the binary number of the first six and status the
\* binary number of the last two; the byte 63 gives 63 and 0.
C8_ResultInfo ==
    pc = "get_measurement_fed" =>
        /\ rx \in 0 .. 255
        /\ reliabilty = 32 * BitOf(rx, 0) + 16 * BitOf(rx, 1) + 8 * BitOf(rx, 2)
                        + 4 * BitOf(rx, 3) + 2 * BitOf(rx, 4) + BitOf(rx, 5)
        /\ status = 2 * BitOf(rx, 6) + BitOf(rx, 7)
        /\ reliabilty \in 0 .. 63
        /\ status \in 0 .. 3
        /\ rx = 63 => reliabilty = 63 /\ status = 0

C8_Witness ==
    pc = "get_measurement_fed" /\ rx = 63 /\ reliabilty = 63 /\ status = 0

\* The algorithm state as the bus receives it.
AlgoStateBytes == <<177, 169, 2, 0, 0, 0, 0, 0, 0, 0, 0>>

\* C9: set_calibration(blob) issues exactly three bus transactions, all
\* writes: 0x0B to register 0x10, then the blob as passed to register 0x20,
\* then the algorithm state to register 0x2E; it returns without raising,
\* also for a blob that get_current_calibration returned.
C9_SetCalibration ==
    [][/\ (pc = "idle" /\ op' = "set_calibration") =>
            /\ pc' = "set_calibration_data"
            /\ calibration_data' = ret.bytes
            /\ Len(trace') = 1
            /\ IsWrite(trace'[1], 16, <<11>>)
       /\ pc = "set_calibration_data" =>
            /\ pc' = "set_calibration_state"
            /\ trace' = Append(trace, trace'[2])
            /\ IsWrite(trace'[2], 32, calibration_data)
            /\ UNCHANGED calibration_data
       /\ pc = "set_calibration_state" =>
            /\ pc' = "idle"
            /\ outcome' = "return"
            /\ Len(trace') = 3
            /\ SubSeq(trace', 1, 2) = trace
            /\ IsWrite(trace'[3], 46, AlgoStateBytes)]_vars

\* set_calibration has returned after writing the blob of 14 bytes 0x41, as
\* the test fixture's get_current_calibration returns it.
C9_Witness ==
    /\ pc = "idle"
    /\ op = "set_calibration"
    /\ outcome = "return"
    /\ Len(trace) = 3
    /\ trace[2].data = [i \in 1 .. 14 |-> 65]

\* C10: perform_calibration never raises; it returns a non-empty blob only
\* when its last poll read the marker 0x0A with less than 30 s on the clock
\* since the start, and then the blob is the 14 bytes read from register
\* 0x20 after the settle delay; otherwise it returns the empty blob.
C10_PerformCalibration ==
    [][(op = "perform_calibration" /\ pc # "idle" /\ pc' = "idle") =>
            /\ outcome' = "return"
            /\ pc = "perform_calibration_return"
            /\ ret'.kind = "bytes"
            /\ ret'.bytes # <<>> =>
                   /\ value = 10
                   /\ time(now - CALIBRATION_SETTLE_MS) - start_of_calibration < 30
                   /\ Len(ret'.bytes) = 14
                   /\ IsRead(Last(trace), 32, 14)
            /\ value # 10 => ret'.bytes = <<>>]_vars

\* v OR 0x01 for a byte v.
OrMask(v) == IF v % 2 = 1 THEN v ELSE v + 1

\* C11: enable_interrupt writes to the interrupt-enable register 0xE2 exactly
\* the one byte v OR 0x01, for the byte v it has just read from the
\* interrupt-status register 0xE1.
C11_EnableInterrupt ==
    [][pc = "enable_interrupt_write" =>
            /\ value = OrMask(rx)
            /\ outcome' # "raise"
            /\ Len(trace') = Len(trace) + 1
            /\ IsWrite(Last(trace'), 226, <<OrMask(rx)>>)]_vars

\* C12: reset_cpu writes to the enable register 0xE0 the byte with bit 7 (the
\* CPU-reset bit) set and no other bit set.
C12_ResetCpu ==
    [][pc = "reset_cpu" =>
            /\ Len(trace') = Len(trace) + 1
            /\ IsWrite(Last(trace'), 224, <<2 ^ hex_to_dec(CPU_RESET)>>)]_vars

\* C13: no call of initialize, get_measurement or perform_calibration ends by
\* raising: initialize ends with a bool, get_measurement with a distance or
\* False, perform_calibration with a blob.
C13_NoFault ==
    (pc = "idle" /\ op \in {"initialize", "get_measurement", "perform_calibration"}) =>
        /\ outcome = "return"
        /\ op = "initialize" => ret.kind = "bool"
        /\ op = "get_measurement" => ret.kind = "int" \/ ret = RetBool(FALSE)
        /\ op = "perform_calibration" => ret.kind = "bytes"

\* What one polling loop does, for its positions P and its budget: a read
\* happens only with the condition not yet met and fewer reads than the
\* budget behind it; the loop ends met after 1..budget reads and one sleep
\* fewer, or unmet after exactly budget reads and as many sleeps.
PollContract(P, budget) ==
    /\ (pc' \in P /\ polls' # polls) =>
            /\ polls' = polls + 1
            /\ ~ready
            /\ polls < budget
    /\ (pc \in P /\ pc' \notin P) =>
            IF ready
            THEN polls \in 1 .. budget /\ sleeps = polls - 1
            ELSE polls = budget /\ sleeps = budget

\* C14: each polling loop (is_cpu_ready, budget 200; is_application_ready and
\* is_data_available, budget 500) ends in success or timeout only.  It
\* returns True at the first read that meets its condition, with no read
\* after it; it returns False exactly after its full budget of reads, none
\* of which met the condition, and has then slept as often as it has read.
C14_PollingLoops ==
    [][/\ PollContract(CpuPoll, CPU_READY_TIMEOUT)
       /\ PollContract(ApplicationPoll, APPLICATION_READY_TIMEOUT)
       /\ PollContract(DataPoll, DATA_AVAILABLE_TIMEOUT)
       /\ pc' = "is_cpu_ready_feed" => (ready' <=> (rx' \div 64) % 2 = 1)
       /\ pc' = "is_application_ready_feed" => (ready' <=> rx' = 192)
       /\ pc' = "is_data_available_test" => (ready' <=> rx' = 85)
       /\ (pc \in CpuPoll /\ pc' \notin CpuPoll) =>
            pc' = "idle" /\ outcome' = "return" /\ ret' = RetBool(ready)
       /\ (pc \in ApplicationPoll /\ pc' \notin ApplicationPoll) =>
            IF ready
            THEN pc' = "start_measurement_application"
            ELSE pc' = "idle" /\ outcome' = "return" /\ ret' = RetBool(FALSE)
       /\ (pc \in DataPoll /\ pc' \notin DataPoll) =>
            IF ready
            THEN pc' = "get_measurement_feed"
            ELSE pc' = "idle" /\ outcome' = "return" /\ ret' = RetBool(FALSE)]_vars

\* is_cpu_ready about to time out: 200 reads, 200 sleeps, the bit never set.
C14_Witness ==
    /\ pc = "is_cpu_ready_fed"
    /\ ~ready
    /\ polls = 200
    /\ sleeps = 200

\* C15: every call of initialize and of get_measurement ends by returning:
\* initialize after at most 200 reads of the enable register, get_measurement
\* after at most 500 reads of the application-ID register and at most 500
\* reads of the register-contents register; a polling loop that has started
\* is left only on success or on timeout.
C15_Terminates ==
    [][/\ (op \in {"initialize", "get_measurement"} /\ pc # "idle" /\ pc' = "idle") =>
            outcome' = "return"
       /\ pc \in CpuPoll => polls <= 200
       /\ pc \in ApplicationPoll \cup DataPoll => polls <= 500
       /\ (pc \in CpuPoll /\ pc' \notin CpuPoll) => ready \/ polls = 200
       /\ (pc \in ApplicationPoll /\ pc' \notin ApplicationPoll) => ready \/ polls = 500
       /\ (pc \in DataPoll /\ pc' \notin DataPoll) => ready \/ polls = 500]_vars

\* C16 as claimed: in every operation that sleeps, a feed lies between each
\* sleep and the sleep before it (or the operation's start), and between each
\* sleep and the sleep after it (or the operation's return).
C16_FedBeforeAndAfter ==
    [][/\ unfed' # "starved"
       /\ (pc \in Polling /\ pc' \notin Polling) => unfed' # "sleep"
       /\ (op = "perform_calibration" /\ pc # "idle" /\ pc' = "idle") =>
            unfed' # "sleep"]_vars

\* C16, amended: in every operation that sleeps, a feed lies between each
\* sleep and the sleep before it (or the operation's start), so no two
\* sleeps happen without a feed between them.  is_cpu_ready,
\* is_application_ready and is_data_available also feed between their last
\* sleep and their return; perform_calibration, once it has slept, returns
\* with no feed after its last sleep.
C16_FedBeforeSleeps ==
    [][/\ unfed' # "starved"
       /\ (pc \in Polling /\ pc' \notin Polling) => unfed' = "none"
       /\ (op = "perform_calibration" /\ pc = "perform_calibration_return") =>
            pc' = "idle" /\ unfed = "sleep" /\ unfed' = "sleep"]_vars

\* perform_calibration has returned the empty blob, its last sleep unfed.
C16_Witness ==
    /\ pc = "idle"
    /\ op = "perform_calibration"
    /\ outcome = "return"
    /\ ret = RetBytes(<<>>)
    /\ unfed = "sleep"

Access(e) == e \in {"read", "write"}

\* The register accesses among the last three events that have a feed
\* neither right before nor right after them: the middle one of three; the
\* first event of a call once a second has followed; the last event of a call
\* that has ended.
BareMiddle ==
    /\ Len(events) = 3
    /\ Access(events[2])
    /\ events[1] # "feed"
    /\ events[3] # "feed"

BareFirst ==
    /\ Len(events) = 2
    /\ Access(events[1])
    /\ events[2] # "feed"

BareLast ==
    /\ pc = "idle"
    /\ events # <<>>
    /\ Access(Last(events))
    /\ Len(events) = 1 \/ events[Len(events) - 1] # "feed"

\* C17 as claimed: in get_measurement every register access has a feed right
\* before it or right after it.
C17_EveryAccessFed ==
    op = "get_measurement" => ~BareMiddle /\ ~BareFirst /\ ~BareLast

\* C17, amended: in get_measurement every register access has a feed right
\* before it or right after it, except two.  The application-request write
\* that opens the call is followed at once by the first read of the
\* application-ID register.  The interrupt-status read of enable_interrupt
\* follows the measure-command write at once and is followed at once by the
\* interrupt-enable write, or is the last access of a call that ends there by
\* raising.
C17_AccessFedButTwo ==
    op = "get_measurement" =>
        /\ BareFirst =>
                /\ events = <<"write", "read">>
                /\ pc = "is_application_ready_feed"
                /\ Len(trace) = 2
                /\ IsWrite(trace[1], 2, <<192>>)
                /\ IsRead(trace[2], 0, 1)
        /\ BareMiddle =>
                /\ events = <<"write", "read", "write">>
                /\ pc = "is_data_available"
                /\ Len(trace) = 5
                /\ IsWrite(trace[3], 16, <<2>>)
                /\ IsRead(trace[4], 225, 1)
                /\ trace[5].kind = "write" /\ trace[5].reg = 226
        /\ BareLast =>
                /\ events = <<"feed", "write", "read">>
                /\ outcome = "raise"
                /\ Len(trace) = 4
                /\ IsWrite(trace[3], 16, <<2>>)
                /\ IsRead(trace[4], 225, 1)

\* The interrupt-status read between the two writes, no feed next to it.
C17_Witness ==
    /\ op = "get_measurement"
    /\ pc = "is_data_available"
    /\ events = <<"write", "read", "write">>

\* C18: every call of perform_calibration returns, and has by then read the
\* interrupt status, written the interrupt enable, written the
\* factory-calibration command 0x0A to the command register and only then
\* polled the register-contents register, at least once; an iteration of the
\* polling loop starts only with less than 30 s on the clock since the
\* command was written.
C18_Calibration ==
    [][/\ (op = "perform_calibration" /\ pc # "idle" /\ pc' = "idle") =>
            /\ outcome' = "return"
            /\ Len(trace') >= 4
            /\ IsRead(trace'[1], 225, 1)
            /\ trace'[2].kind = "write" /\ trace'[2].reg = 226
            /\ IsWrite(trace'[3], 16, <<10>>)
            /\ IsRead(trace'[4], 30, 1)
       /\ pc' = "perform_calibration_feed" =>
            time(now') - start_of_calibration' < CALIBRATION_TIMEOUT_S]_vars

\* C19: initialize is idempotent.  With a sensor whose answers do not
\* change, every initialize() after the caller's first one returns what the
\* first returned, after the same bus transactions (the one scan, the one
\* reset write, the reads of the enable register), the same number of polls
\* and the same number of sleeps, whatever get_measurement calls lie in
\* between; a call starts from the scan with its locals as the constructor
\* left them.
C19_Idempotent ==
    [][/\ (op' = "initialize" /\ pc # "idle" /\ pc' = "idle" /\ first # NoCall) =>
            /\ outcome' = "return"
            /\ ret' = first.ret
            /\ trace' = first.trace
            /\ polls = first.polls
            /\ sleeps = first.sleeps
       /\ (pc = "idle" /\ op' = "initialize") =>
            /\ trace' = <<Scan>>
            /\ <<counter, ready, value, rx>> = <<0, FALSE, 0, 0>>]_vars

\* A later initialize() about to return True after as many polls as the
\* first, which returned True.
C19_Witness ==
    /\ op = "initialize"
    /\ pc = "is_cpu_ready_feed"
    /\ ready
    /\ first.ret = RetBool(TRUE)
    /\ polls = first.polls
    /\ polls = 3
    /\ initialized = "true"

\* The polls of a loop that gets notyet answers of "not yet" and gives up
\* after budget reads.
PollsOf(notyet, budget) == IF notyet < budget THEN notyet + 1 ELSE budget

\* What a get_measurement leaves behind with the sensor s: False after the
\* request and the application polls; or the error of enable_interrupt
\* after the command and the read of the interrupt register; or False after
\* the data polls; or the distance after the whole sequence.
MeasurementOf(s, t, result, how) ==
    IF s.app >= APPLICATION_READY_TIMEOUT
    THEN how = "return" /\ result = RetBool(FALSE) /\ ApplicationPrefix(t)
    ELSE IF s.int_status = 100
    THEN /\ how = "raise"
         /\ Len(t) = 4
         /\ ApplicationPrefix(SubSeq(t, 1, 2))
         /\ IsWrite(t[3], 16, <<2>>)
         /\ IsRead(t[4], 225, 1)
    ELSE IF s.data >= DATA_AVAILABLE_TIMEOUT
    THEN how = "return" /\ result = RetBool(FALSE) /\ DataPrefix(t)
    ELSE how = "return" /\ result = RetInt(1250) /\ MeasurementOrder(t)

\* C20: get_measurement does not look at how, or whether, initialize() ended.
\* From every idle state of a caller that has not crashed (no initialize()
\* yet, the latest one returned False, the latest one returned True) its
\* first step writes 0xC0 to register 0x02 and enters the application poll,
\* and the call ends with the transactions, the polls and the result the
\* sensor's answers alone determine; so the loop of main.py drives the
\* measurement after an initialize() that returned False.
C20_NoGuard ==
    [][/\ (pc = "idle" /\ op' = "get_measurement") =>
            /\ Len(trace') = 1
            /\ IsWrite(trace'[1], 2, <<192>>)
            /\ pc' = "is_application_ready_read"
       /\ (pc \in ApplicationPoll /\ pc' \notin ApplicationPoll) =>
            polls = PollsOf(sensor.app, APPLICATION_READY_TIMEOUT)
       /\ (pc \in DataPoll /\ pc' \notin DataPoll) =>
            polls = PollsOf(sensor.data, DATA_AVAILABLE_TIMEOUT)
       /\ (op' = "get_measurement" /\ pc # "idle" /\ pc' = "idle") =>
            MeasurementOf(sensor, trace', ret', outcome')]_vars

\* A distance returned after an initialize() that returned False.
C20_Witness ==
    /\ pc = "idle"
    /\ op = "get_measurement"
    /\ initialized = "false"
    /\ ret = RetInt(1250)
    /\ MeasurementOrder(trace)
    /\ sensor.scan = {}

\* C21: power-up happens at construction, not at initialize().  The
\* constructor drives the enable pin high and feeds the watchdog once while
\* there is no bus yet; it opens the bus with the pin high, that one feed
\* the only event so far and no bus transaction made, and leaves the state
\* the calls start from.  No step makes a bus transaction without the bus
\* open.  No step of initialize() or get_measurement() changes the pin.
\* power_down() drives the pin low with no feed and no bus transaction.
C21_PowerUp ==
    [][/\ pc = "__init__" =>
            /\ pin' = "high"
            /\ events' = <<"feed">>
            /\ i2c' = "none"
            /\ trace' = <<>>
       /\ (i2c = "none" /\ i2c' = "open") =>
            /\ pin = "high"
            /\ events = <<"feed">>
            /\ trace = <<>>
            /\ Constructed'
       /\ trace' # <<>> => i2c = "open"
       /\ op' \in {"initialize", "get_measurement"} => pin' = pin
       /\ op' = "power_down" =>
            /\ pin' = "low"
            /\ events' = <<>>
            /\ trace' = <<>>]_vars

\* An initialize() that returned True with the pin low since a power_down().
C21_Witness ==
    /\ pc = "idle"
    /\ op = "initialize"
    /\ ret = RetBool(TRUE)
    /\ pin = "low"
    /\ i2c = "open"

\* C22 as the specification states it: the third write of set_calibration
\* goes to register 0x2E with exactly 10 bytes.
C22_AlgoStateTen ==
    [][pc = "set_calibration_state" =>
            /\ Len(trace') = 3
            /\ trace'[3].kind = "write"
            /\ trace'[3].reg = 46
            /\ Len(trace'[3].data) = 10]_vars

\* C22: the third write of set_calibration sends the algorithm state to
\* register 0x2E: one byte for each of the 11 entries of ALGO_STATE, the
\* value of that entry, so exactly 11 bytes, B1 A9 02 and eight times 00,
\* whatever blob the second write carried.
C22_AlgoStateEleven ==
    [][pc = "set_calibration_state" =>
            /\ pc' = "idle"
            /\ outcome' = "return"
            /\ Len(trace') = 3
            /\ trace'[3].kind = "write"
            /\ trace'[3].dev = AddressNumber
            /\ trace'[3].reg = 46
            /\ Len(trace'[3].data) = 11
            /\ Len(ALGO_STATE) = 11
            /\ \A i \in 1 .. 11 : trace'[3].data[i] = hex_to_dec(ALGO_STATE[i])
            /\ \A i \in 4 .. 11 : trace'[3].data[i] = 0]_vars

\* set_calibration has returned after writing a blob of 14 different bytes
\* and then the 11 bytes of the algorithm state.
C22_Witness ==
    /\ pc = "idle"
    /\ op = "set_calibration"
    /\ Len(trace) = 3
    /\ trace[2].data = [i \in 1 .. CALIBRATION_DATA_LENGTH |-> i]
    /\ Len(trace[3].data) = 11
    /\ SubSeq(trace[3].data, 1, 3) = <<177, 169, 2>>

\* C23: a completed measurement is told from a timeout by the caller's truth
\* test: get_measurement returns a value that tests false only from a
\* polling loop (application ready, data available) that ended unmet, for
\* every pair of peak bytes.
C23_FalseOnlyOnTimeout ==
    [][(op' = "get_measurement" /\ pc # "idle" /\ pc' = "idle"
            /\ outcome' = "return" /\ ~truth(ret')) =>
            /\ pc \in ApplicationPoll \cup DataPoll
            /\ ~ready]_vars
====
